---- MODULE Spec2Model ----
(***************************************************************************)
(* State-machine model of Interface.py: the serial transport               *)
(* (Communication), the command encoder (EyeMech) and the event handlers   *)
(* of the Tkinter radar widget (Interface).                                *)
(*                                                                         *)
(* Time is the reading of time.time(), counted in ticks of half a          *)
(* send_interval (5 ms).  Floats are kept exactly: a float is a sign bit   *)
(* and a non-negative rational num/den, so that -0.0 and 0.0 differ as     *)
(* they do in IEEE arithmetic and in the "%.2f" text.  For every integer   *)
(* pixel the double-precision result of np.interp differs from the exact   *)
(* rational by less than 1e-13 and formats to the same two decimals.       *)
(***************************************************************************)
EXTENDS Integers, Sequences, FiniteSets, TLC

(* ------------------------------------------------------------------ *)
(* Program constants                                                   *)
(* ------------------------------------------------------------------ *)

\* Interface._build_ui: self.canvas_size = 400
canvas_size == 400

\* Interface._build_ui: self.margin = 20
margin == 20

\* self.radius = self.canvas_size // 2 - self.margin
radius == (canvas_size \div 2) - margin

\* self.center_x = self.canvas_size // 2
center_x == canvas_size \div 2

\* self.center_y = self.canvas_size // 2
center_y == canvas_size \div 2

\* self.send_interval = 0.01 seconds, in ticks of 5 ms
send_interval == 2

\* the two ends of the output range in np.interp(..., [-50, 50])
out_lo == -50
out_hi == 50

\* event.delta // 120
wheel_unit == 120

(* ------------------------------------------------------------------ *)
(* Bounds of the model                                                 *)
(* ------------------------------------------------------------------ *)

\* the clock runs from StartTime to StartTime + MaxTime
MaxTime == 4

\* at most MaxEmit commands are sent in one behaviour
MaxEmit == 3

\* the reading of time.time() when the program starts, in ticks: the epoch
\* clock is far beyond one send_interval
StartTime == 2

\* at most MaxConnect presses of the connect button in one behaviour
MaxConnect == 2

\* the pointer grid of the mapping specification reaches GridPad pixels
\* beyond the canvas on every side
GridPad == 3

\* the wheel specification draws event.delta from -WheelMax to WheelMax
WheelMax == 250

(* ------------------------------------------------------------------ *)
(* Floats, np.interp and "{:.2f}"                                      *)
(* ------------------------------------------------------------------ *)

Abs(n) == IF n < 0 THEN -n ELSE n

\* the float n/d (d > 0); n = 0 gives +0.0
Float(n, d) == [neg |-> n < 0, num |-> Abs(n), den |-> d]

\* unary minus on a float: flips the sign bit, also of zero
FNeg(v) == [v EXCEPT !.neg = ~v.neg]

\* np.interp(x, [xp0, xp1], [fp0, fp1]): fp0 left of xp0, fp1 right of xp1,
\* fp0 + slope * (x - xp0) in between
Interp(x, xp0, xp1, fp0, fp1) ==
    IF x >= xp1 THEN Float(fp1, 1)
    ELSE IF x <= xp0 THEN Float(fp0, 1)
    ELSE Float(fp0 * (xp1 - xp0) + (fp1 - fp0) * (x - xp0), xp1 - xp0)

\* "{:.2f}".format(v): the sign, and the magnitude rounded to hundredths
Fmt2(v) ==
    [neg |-> v.neg, cents |-> (200 * v.num + v.den) \div (2 * v.den)]

\* f"{delta}" of an integer: the sign and the decimal magnitude
FmtInt(d) == [neg |-> d < 0, int |-> Abs(d)]

\* the number a formatted "%.2f" text denotes, in hundredths
Cents(f) == IF f.neg THEN -f.cents ELSE f.cents

(* ------------------------------------------------------------------ *)
(* Coordinate mapping and command encoding                             *)
(* ------------------------------------------------------------------ *)

\* Target without the test against the circle
TargetNoSnap(x, y) == <<x, y>>

\* _update_dot_and_send: the candidate position (tx, ty)
Target(x, y) ==
    LET dx == x - center_x
        dy == y - center_y
    IN  IF dx * dx + dy * dy <= radius * radius
        THEN <<x, y>>
        ELSE <<center_x, center_y>>

\* MapX over the whole canvas, the margin forgotten
MapXNoMargin(tx) == Interp(tx, 0, canvas_size, out_lo, out_hi)

\* MapX with the two ends of the output range exchanged
MapXReversed(tx) ==
    Interp(tx, center_x - radius, center_x + radius, out_hi, out_lo)

\* map_x = np.interp(tx, [cx - r, cx + r], [-50, 50])
MapX(tx) == Interp(tx, center_x - radius, center_x + radius, out_lo, out_hi)

\* MapY without the negation
MapYNoNeg(ty) ==
    Interp(ty, center_y - radius, center_y + radius, out_lo, out_hi)

\* MapY onto [-100, 100]
MapYDoubled(ty) ==
    FNeg(Interp(ty, center_y - radius, center_y + radius,
                2 * out_lo, 2 * out_hi))

\* map_y = - np.interp(ty, [cy - r, cy + r], [-50, 50])
MapY(ty) ==
    FNeg(Interp(ty, center_y - radius, center_y + radius, out_lo, out_hi))

\* EyeMech.move_eye: "EYE {:.2f} {:.2f}".format(x, y)
move_eye(x, y) == [op |-> "EYE", args |-> <<Fmt2(x), Fmt2(y)>>]

\* EyeMech.control_lid: f"LID {delta}"
control_lid(delta) == [op |-> "LID", args |-> <<FmtInt(delta)>>]

\* EyeMech.blink: "BLINK"
blink == [op |-> "BLINK", args |-> <<>>]

\* the command _update_dot_and_send(x, y) hands to the encoder
EyeCmdAt(x, y) ==
    LET t == Target(x, y) IN move_eye(MapX(t[1]), MapY(t[2]))

\* (cmd + "\n").encode(): the text and its terminator
Line(cmd) == [text |-> cmd, end |-> "\n"]

(* ------------------------------------------------------------------ *)
(* State                                                               *)
(* ------------------------------------------------------------------ *)

VARIABLES
    ser,             \* Communication.ser: 0 for None, else the Serial object
    is_open,         \* the Serial objects whose is_open is True
    port,            \* Communication.port ("" for None)
    serials,         \* how many Serial objects have been constructed
    written,         \* what Serial.write received: <<[conn, data], ...>>
    emitted,         \* what send printed: <<[cmd, by, xy, conn], ...>>, each
                     \* command with the handler that sent it, the event's
                     \* data and the connection open at that moment (0: none)
    dragging,        \* Interface.dragging
    last_send_time,  \* Interface.last_send_time
    status_var,      \* Interface.status_var
    click_dot,       \* the canvas item tagged "click_dot": <<tx, ty>> or <<>>
    now,             \* the reading of time.time()
    pointer,         \* the event data a mapping or wheel specification draws
                     \* at the start: <<x, y>> or <<delta, num>>
    pc,              \* where the UI thread is: "idle", or "open" inside connect
    connects,        \* how many times on_connect has called connect
    ret,             \* what the latest Communication.connect returned
    sess             \* the latest pointer-down: its time, the time of the latest
                     \* pointer-move after it, and whether all came less than
                     \* send_interval apart

vars == <<ser, is_open, port, serials, written, emitted, dragging,
          last_send_time, status_var, click_dot, now, pointer, pc, connects,
          ret, sess>>

commVars == <<ser, is_open, port, serials, pc, connects, ret, status_var>>

\* no connect has returned yet
NoRet == [ok |-> FALSE, msg |-> "", raised |-> FALSE, called |-> FALSE]

\* no pointer-down has happened yet
NoSess == [start |-> 0, last |-> 0, sub |-> TRUE]

\* the state Interface.__init__ leaves, the pointer aside
InitAt(p) ==
    /\ ser = 0
    /\ is_open = {}
    /\ port = ""
    /\ serials = 0
    /\ written = <<>>
    /\ emitted = <<>>
    /\ dragging = FALSE
    /\ last_send_time = 0
    /\ status_var = "Not Connected"
    /\ click_dot = <<>>
    /\ now = StartTime
    /\ pointer = p
    /\ pc = "idle"
    /\ connects = 0
    /\ ret = NoRet
    /\ sess = NoSess

Init == InitAt(<<>>)

(* ------------------------------------------------------------------ *)
(* Transport                                                           *)
(* ------------------------------------------------------------------ *)

\* the test of send and connect: self.ser and self.ser.is_open
SerOpen == ser # 0 /\ ser \in is_open

\* send without the test of the connection
send_unguarded(cmd, by, xy) ==
    /\ emitted' = Append(emitted, [cmd |-> cmd, by |-> by, xy |-> xy,
                                   conn |-> IF SerOpen THEN ser ELSE 0])
    /\ written' = Append(written, [conn |-> ser, data |-> Line(cmd)])

\* Communication.send(cmd), called by handler `by` for the event whose data
\* are xy: event.x and event.y, or event.delta and event.num of a wheel event
send(cmd, by, xy) ==
    /\ emitted' = Append(emitted, [cmd |-> cmd, by |-> by, xy |-> xy,
                                   conn |-> IF SerOpen THEN ser ELSE 0])
    /\ written' = IF SerOpen
                  THEN Append(written, [conn |-> ser, data |-> Line(cmd)])
                  ELSE written

\* the port names the combo box can hold; "" is the empty selection
PortNames == {"COM3"}

\* what the failed constructor's exception says
OpenError == "could not open port"

\* CloseOld with the close forgotten
CloseOldSkipped == is_open

\* connect's first statement: close the open connection, if any
CloseOld == IF SerOpen THEN is_open \ {ser} ELSE is_open

\* on_connect up to the constructor call inside Communication.connect:
\* an empty selection only warns; otherwise the open connection is closed
on_connect(p) ==
    /\ pc = "idle"
    /\ connects < MaxConnect
    /\ IF p = ""
       THEN UNCHANGED vars
       ELSE /\ is_open' = CloseOld
            /\ pc' = "open"
            /\ port' = port
            /\ connects' = connects + 1
            \* the call is in progress; msg holds its argument port_name
            /\ ret' = [ok |-> FALSE, msg |-> p, raised |-> FALSE, called |-> FALSE]
            /\ UNCHANGED <<ser, serials, written, emitted, dragging,
                           last_send_time, status_var, click_dot, now,
                           pointer, sess>>

\* serial.Serial(port_name, ...) returned: the new object is open
OpenSucceeds ==
    /\ serials' = serials + 1
    /\ ser' = serials + 1
    /\ is_open' = is_open \cup {serials + 1}
    /\ port' = ret.msg
    /\ ret' = [ok |-> TRUE, msg |-> ret.msg, raised |-> FALSE, called |-> TRUE]
    /\ status_var' = "Connected"

\* OpenFails with self.ser left as it was
OpenFailsKeepsSer ==
    /\ ret' = [ok |-> FALSE, msg |-> OpenError, raised |-> FALSE, called |-> TRUE]
    /\ status_var' = "Connection Failed"
    /\ UNCHANGED <<ser, serials, is_open, port>>

\* serial.Serial(port_name, ...) raised: the except branch
OpenFails ==
    /\ ser' = 0
    /\ ret' = [ok |-> FALSE, msg |-> OpenError, raised |-> FALSE, called |-> TRUE]
    /\ status_var' = "Connection Failed"
    /\ UNCHANGED <<serials, is_open, port>>

\* a command that was sent while no connection was open
IsDropped(e) == e.conn = 0

\* connect_open with the dropped commands written to the new connection
connect_open_replaying ==
    /\ pc = "open"
    /\ pc' = "idle"
    /\ \/ /\ OpenSucceeds
          /\ LET D == SelectSeq(emitted, IsDropped)
             IN  written' = written \o
                     [i \in 1..Len(D) |->
                         [conn |-> serials + 1, data |-> Line(D[i].cmd)]]
       \/ /\ OpenFails
          /\ UNCHANGED written
    /\ UNCHANGED <<connects, emitted, dragging, last_send_time,
                   click_dot, now, pointer, sess>>

\* the rest of Communication.connect and of on_connect
connect_open ==
    /\ pc = "open"
    /\ pc' = "idle"
    /\ \/ OpenSucceeds
       \/ OpenFails
    /\ UNCHANGED <<connects, written, emitted, dragging, last_send_time,
                   click_dot, now, pointer, sess>>

(* ------------------------------------------------------------------ *)
(* Event handlers                                                      *)
(* ------------------------------------------------------------------ *)

\* Interface._update_dot_and_send(x, y)
_update_dot_and_send(x, y, by) ==
    /\ click_dot' = Target(x, y)
    /\ send(EyeCmdAt(x, y), by, <<x, y>>)

\* _on_left_press recording the time of its send
_on_left_press_stamping(x, y) ==
    /\ pc = "idle"
    /\ Len(emitted) < MaxEmit
    /\ dragging' = TRUE
    /\ _update_dot_and_send(x, y, "press")
    /\ last_send_time' = now
    /\ sess' = [start |-> now, last |-> now, sub |-> TRUE]
    /\ UNCHANGED <<now, pointer>>
    /\ UNCHANGED commVars

\* Interface._on_left_press(event)
_on_left_press(x, y) ==
    /\ pc = "idle"
    /\ Len(emitted) < MaxEmit
    /\ dragging' = TRUE
    /\ _update_dot_and_send(x, y, "press")
    /\ sess' = [start |-> now, last |-> now, sub |-> TRUE]
    /\ UNCHANGED <<last_send_time, now, pointer>>
    /\ UNCHANGED commVars

\* Due with a strict comparison
DueStrictly == now - last_send_time > send_interval

\* the throttle test of _on_drag
Due == now - last_send_time >= send_interval

\* Interface._on_drag(event)
_on_drag(x, y) ==
    /\ pc = "idle"
    /\ IF ~dragging
       THEN UNCHANGED <<written, emitted, click_dot, last_send_time, sess>>
       ELSE /\ IF Due
               THEN /\ Len(emitted) < MaxEmit
                    /\ _update_dot_and_send(x, y, "drag")
                    /\ last_send_time' = now
               ELSE UNCHANGED <<written, emitted, click_dot, last_send_time>>
            /\ sess' = [sess EXCEPT
                          !.last = now,
                          !.sub = sess.sub /\ (now - sess.last < send_interval)]
    /\ UNCHANGED <<dragging, now, pointer>>
    /\ UNCHANGED commVars

\* _on_left_release with the flag left set
_on_left_release_keeps_dragging ==
    /\ pc = "idle"
    /\ UNCHANGED vars

\* Interface._on_left_release(event)
_on_left_release ==
    /\ pc = "idle"
    /\ dragging' = FALSE
    /\ UNCHANGED <<written, emitted, click_dot, last_send_time, now, pointer,
                   sess>>
    /\ UNCHANGED commVars

\* _on_right_click ending the drag session
_on_right_click_ends_drag ==
    /\ pc = "idle"
    /\ Len(emitted) < MaxEmit
    /\ send(blink, "click", <<>>)
    /\ dragging' = FALSE
    /\ UNCHANGED <<click_dot, last_send_time, now, pointer, sess>>
    /\ UNCHANGED commVars

\* Interface._on_right_click(event)
_on_right_click ==
    /\ pc = "idle"
    /\ Len(emitted) < MaxEmit
    /\ send(blink, "click", <<>>)
    /\ UNCHANGED <<dragging, click_dot, last_send_time, now, pointer, sess>>
    /\ UNCHANGED commVars

\* WheelStep with the two buttons exchanged
WheelStepSwapped(delta, num) ==
    IF delta # 0 THEN <<TRUE, delta \div wheel_unit>>
    ELSE IF num \in {4, 5} THEN <<TRUE, IF num = 5 THEN 1 ELSE -1>>
    ELSE <<FALSE, 0>>

\* WheelStep with the division rounding toward zero
WheelStepTruncating(delta, num) ==
    IF delta # 0
    THEN <<TRUE, IF delta < 0 THEN - ((- delta) \div wheel_unit)
                 ELSE delta \div wheel_unit>>
    ELSE IF num \in {4, 5} THEN <<TRUE, IF num = 4 THEN 1 ELSE -1>>
    ELSE <<FALSE, 0>>

\* the step _on_wheel derives: <<TRUE, delta>>, or <<FALSE, 0>> for return
WheelStep(delta, num) ==
    IF delta # 0 THEN <<TRUE, delta \div wheel_unit>>
    ELSE IF num \in {4, 5} THEN <<TRUE, IF num = 4 THEN 1 ELSE -1>>
    ELSE <<FALSE, 0>>

\* Interface._on_wheel(event): event.delta (0 when absent) and event.num
_on_wheel(delta, num) ==
    /\ pc = "idle"
    /\ LET st == WheelStep(delta, num)
       IN  IF st[1]
           THEN /\ Len(emitted) < MaxEmit
                /\ send(control_lid(st[2]), "wheel", <<delta, num>>)
           ELSE UNCHANGED <<written, emitted>>
    /\ UNCHANGED <<dragging, click_dot, last_send_time, now, pointer, sess>>
    /\ UNCHANGED commVars

\* time.time() moves on
Tick ==
    /\ now < StartTime + MaxTime
    /\ now' = now + 1
    /\ UNCHANGED <<written, emitted, dragging, last_send_time, click_dot,
                   pointer, sess>>
    /\ UNCHANGED commVars

(* ------------------------------------------------------------------ *)
(* Specifications                                                      *)
(* ------------------------------------------------------------------ *)

\* pointer positions of the event specification: a boundary point off the
\* axes and a point outside the circle
Points == {<<344, 308>>, <<500, 500>>}

\* wheel events: <<event.delta, event.num>>
Wheels == {<<-60, 0>>, <<0, 4>>, <<0, 0>>}

Next ==
    \/ \E p \in PortNames \cup {""} : on_connect(p)
    \/ connect_open
    \/ \E xy \in Points : _on_left_press(xy[1], xy[2])
    \/ \E xy \in Points : _on_drag(xy[1], xy[2])
    \/ _on_left_release
    \/ _on_right_click
    \/ \E w \in Wheels : _on_wheel(w[1], w[2])
    \/ Tick

Spec == Init /\ [][Next]_vars

\* the transport and the handlers that send, at one reading of the clock
NextComm ==
    \/ \E p \in PortNames \cup {""} : on_connect(p)
    \/ connect_open
    \/ \E xy \in Points : _on_left_press(xy[1], xy[2])
    \/ \E xy \in Points : _on_drag(xy[1], xy[2])
    \/ _on_left_release
    \/ _on_right_click
    \/ \E w \in Wheels : _on_wheel(w[1], w[2])

SpecComm == Init /\ [][NextComm]_vars

\* the input events and the clock, with no connection ever requested
NextDrag ==
    \/ \E xy \in Points : _on_left_press(xy[1], xy[2])
    \/ \E xy \in Points : _on_drag(xy[1], xy[2])
    \/ _on_left_release
    \/ _on_right_click
    \/ \E w \in Wheels : _on_wheel(w[1], w[2])
    \/ Tick

SpecDrag == Init /\ [][NextDrag]_vars

\* the pointer positions of the mapping specification: every pixel of the
\* canvas and GridPad pixels around it, and two positions far outside
GridAxis == (0 - GridPad)..(canvas_size + GridPad)

FarPoints == {<<500, 500>>, <<-40, -40>>}

Grid == (GridAxis \X GridAxis) \cup FarPoints

InitMap == \E p \in Grid : InitAt(p)

\* one pointer-down at the position drawn
NextMap ==
    /\ Len(emitted) = 0
    /\ _on_left_press(pointer[1], pointer[2])

SpecMap == InitMap /\ [][NextMap]_vars

\* rows of the monotonicity specification: the diameter, a chord, the
\* tangent at the top, and a row that misses the circle
MonoRows == {center_y, 308, center_y - radius, 10}

InitMono == \E p \in GridAxis \X MonoRows : InitAt(p)

\* a pointer-down at the position drawn, then one pointer-move to the right
\* of it in the same row
NextMono ==
    \/ /\ Len(emitted) = 0
       /\ _on_left_press(pointer[1], pointer[2])
    \/ /\ Len(emitted) = 1
       /\ \E x2 \in GridAxis : x2 > pointer[1] /\ _on_drag(x2, pointer[2])

SpecMono == InitMono /\ [][NextMono]_vars

\* the wheel events of the wheel specification: every delta up to WheelMax
\* either way, with button number 4, 5 or none (0)
WheelGrid == ((0 - WheelMax)..WheelMax) \X {0, 4, 5}

InitWheel == \E w \in WheelGrid : InitAt(w)

\* wheel events with the data drawn, in and out of a drag session
NextWheel ==
    \/ _on_wheel(pointer[1], pointer[2])
    \/ _on_left_press(344, 308)
    \/ _on_drag(344, 308)
    \/ _on_left_release

SpecWheel == InitWheel /\ [][NextWheel]_vars

\* every kind of event at one pointer position, the connect button and
\* the clock
NextStamp ==
    \/ on_connect("COM3")
    \/ connect_open
    \/ _on_left_press(344, 308)
    \/ _on_drag(344, 308)
    \/ _on_left_release
    \/ _on_right_click
    \/ _on_wheel(0, 4)
    \/ Tick

SpecStamp == Init /\ [][NextStamp]_vars

TypeOK ==
    /\ ser \in 0..serials
    /\ is_open \subseteq 1..serials
    /\ dragging \in BOOLEAN
    /\ now \in StartTime..(StartTime + MaxTime)
    /\ last_send_time \in 0..now
    /\ Len(emitted) <= MaxEmit
    /\ Len(written) <= Len(emitted)
    /\ pc \in {"idle", "open"}

(* ------------------------------------------------------------------ *)
(* Properties                                                          *)
(* ------------------------------------------------------------------ *)

Last(q) == q[Len(q)]

\* a send happened in this step
Sent == Len(emitted') = Len(emitted) + 1

\* the latest connect returned an error
ConnectFailed == pc = "idle" /\ ret.called /\ ~ret.ok

\* C1: every send writes exactly the command and one newline to the open
\* connection, and writes nothing when none is open; it never changes the
\* connection state.
C1_SendWritesIffOpen ==
    [][Sent =>
          /\ IF ser # 0 /\ ser \in is_open
             THEN written' = Append(written,
                      [conn |-> ser,
                       data |-> [text |-> Last(emitted').cmd, end |-> "\n"]])
             ELSE written' = written
          /\ ser' = ser
          /\ is_open' = is_open
          /\ pc' = pc]_vars

\* a command was written to an open connection and another was dropped
C1_Witness == Len(written) >= 1 /\ Len(emitted) > Len(written)

\* the sends of EYE commands, by their place in the log
EyeEntries == {i \in 1..Len(emitted) : emitted[i].cmd.op = "EYE"}

\* the place in the log of the latest EYE command, and of the latest
\* pointer-down
LastEye == CHOOSE i \in EyeEntries : \A j \in EyeEntries : j <= i
PressEntries == {i \in 1..Len(emitted) : emitted[i].by = "press"}
LastPress == CHOOSE i \in PressEntries : \A j \in PressEntries : j <= i

\* the clock reading at which the latest EYE command was sent: a
\* pointer-down's is the session's start, a pointer-move's is the timestamp
LastEyeAt ==
    IF emitted[LastEye].by = "press" THEN sess.start ELSE last_send_time

\* C2: an EYE command sent by a pointer-move comes at least send_interval
\* after the EYE command sent before it, the pointer-down's included
\* (stated for a pointer-move at a later clock reading than that command).
C2_MoveSpacing ==
    [][(Sent /\ Last(emitted').by = "drag" /\ EyeEntries # {}
             /\ now > LastEyeAt) =>
          now - LastEyeAt >= send_interval]_vars

\* how many EYE commands the session of the latest pointer-down has sent
SessEmits == Cardinality({i \in EyeEntries : i >= LastPress})

CeilDiv(a, b) == (a + b - 1) \div b

\* C3: a session of pointer-moves less than send_interval apart that has
\* lasted D > 0 has sent at most ceil(D / send_interval) + 1 EYE commands.
C3_SessionBound ==
    (PressEntries # {} /\ sess.sub /\ sess.last > sess.start) =>
        SessEmits <= CeilDiv(sess.last - sess.start, send_interval) + 1

\* C4: at most one Serial object is open, it is the one self.ser holds, and
\* none is open when connect calls the constructor.
C4_AtMostOneOpen ==
    /\ Cardinality(is_open) <= 1
    /\ is_open # {} => is_open = {ser}
    /\ pc = "open" => is_open = {}

\* a second connection is open after the first was closed
C4_Witness == serials = 2 /\ is_open = {2} /\ Len(written) >= 1

\* C5: a failed connect returns (False, message) without raising and leaves
\* no connection open; while it is the latest connect, no send writes.
C5_FailedConnectCloses ==
    /\ [](ConnectFailed =>
            /\ ret.msg = OpenError
            /\ ~ret.raised
            /\ ser = 0
            /\ is_open = {})
    /\ [][ConnectFailed => written' = written]_vars

\* a connect failed after a connection had been open and written to, and
\* the command sent after the failure was dropped
C5_Witness ==
    /\ ConnectFailed
    /\ serials = 1
    /\ Len(written) = 1
    /\ Len(emitted) = 2
    /\ emitted[1].cmd = blink
    /\ written[1].data.text = blink
    /\ emitted[2].cmd.op = "LID"

\* the x and y an EYE command carries, in hundredths
OutX(e) == Cents(e.cmd.args[1])
OutY(e) == Cents(e.cmd.args[2])

\* the squared distance of a pointer position from the center
Dist2(xy) ==
    (xy[1] - center_x) * (xy[1] - center_x)
        + (xy[2] - center_y) * (xy[2] - center_y)

Outside(xy) == Dist2(xy) > radius * radius
OnCircle(xy) == Dist2(xy) = radius * radius
InCircle(xy) == Dist2(xy) <= radius * radius

Sign(n) == IF n > 0 THEN 1 ELSE IF n < 0 THEN -1 ELSE 0

Max(a, b) == IF a >= b THEN a ELSE b

\* 50.00 in hundredths
Full == 100 * out_hi

\* C6: the EYE command for a pointer position strictly outside the circle
\* carries x = 0 and y = 0, and the dot is drawn at the center.
C6_OutsideMapsToCenter ==
    \A i \in EyeEntries :
        Outside(emitted[i].xy) =>
            /\ OutX(emitted[i]) = 0
            /\ OutY(emitted[i]) = 0
            /\ i = Len(emitted) => click_dot = <<center_x, center_y>>

\* a command was sent for a position outside the circle whose nearest
\* boundary point is not the center's image: inside the bounding square
C6_Witness ==
    \E i \in EyeEntries :
        /\ Outside(emitted[i].xy)
        /\ Abs(emitted[i].xy[1] - center_x) < radius
        /\ Abs(emitted[i].xy[2] - center_y) < radius

\* C7 as stated: on the boundary circle the larger of |x| and |y| is 50.00
\* and the signs follow the direction from the center.
C7_DominantAxisFull ==
    \A i \in EyeEntries :
        OnCircle(emitted[i].xy) =>
            /\ Max(Abs(OutX(emitted[i])), Abs(OutY(emitted[i]))) = Full
            /\ Sign(OutX(emitted[i])) = Sign(emitted[i].xy[1] - center_x)
            /\ Sign(OutY(emitted[i])) = - Sign(emitted[i].xy[2] - center_y)

\* C7 amended: on the boundary circle x^2 + y^2 = 50^2 and the signs follow
\* the direction from the center; the larger of |x| and |y| is 50.00 exactly
\* at the four points on the axes.
C7_BoundaryNormFull ==
    \A i \in EyeEntries :
        OnCircle(emitted[i].xy) =>
            /\ OutX(emitted[i]) * OutX(emitted[i])
                   + OutY(emitted[i]) * OutY(emitted[i]) = Full * Full
            /\ Sign(OutX(emitted[i])) = Sign(emitted[i].xy[1] - center_x)
            /\ Sign(OutY(emitted[i])) = - Sign(emitted[i].xy[2] - center_y)
            /\ Max(Abs(OutX(emitted[i])), Abs(OutY(emitted[i]))) = Full
                   <=> \/ emitted[i].xy[1] = center_x
                       \/ emitted[i].xy[2] = center_y

\* a command was sent for a boundary point off both axes
C7_Witness ==
    \E i \in EyeEntries :
        /\ OnCircle(emitted[i].xy)
        /\ emitted[i].xy[1] # center_x
        /\ emitted[i].xy[2] # center_y

\* two EYE commands were sent for the same row, the second to the right
TwoInRow ==
    /\ Len(emitted) = 2
    /\ EyeEntries = {1, 2}
    /\ emitted[1].xy[2] = emitted[2].xy[2]
    /\ emitted[1].xy[1] < emitted[2].xy[1]

\* C8 as stated: in one row the x sent never decreases from left to right,
\* and stays equal only where a position is outside the circle.
C8_MonotoneEverywhere ==
    TwoInRow =>
        /\ OutX(emitted[2]) >= OutX(emitted[1])
        /\ OutX(emitted[2]) = OutX(emitted[1]) =>
               Outside(emitted[1].xy) \/ Outside(emitted[2].xy)

\* C8 amended: in one row the x sent increases strictly from left to right
\* between positions that are both inside or on the circle.
C8_MonotoneInCircle ==
    (TwoInRow /\ InCircle(emitted[1].xy) /\ InCircle(emitted[2].xy)) =>
        OutX(emitted[2]) > OutX(emitted[1])

\* two positions of one row, both in the circle, were sent
C8_Witness ==
    TwoInRow /\ InCircle(emitted[1].xy) /\ InCircle(emitted[2].xy)

\* C9: every EYE command carries x and y within [-50.00, 50.00].
C9_EyeInRange ==
    \A i \in EyeEntries :
        /\ OutX(emitted[i]) \in (100 * out_lo)..(100 * out_hi)
        /\ OutY(emitted[i]) \in (100 * out_lo)..(100 * out_hi)

\* a command was sent for a negative x and a y beyond the canvas
C9_Witness ==
    \E i \in EyeEntries :
        emitted[i].xy[1] < 0 /\ emitted[i].xy[2] > canvas_size

\* C10: inside or on the circle the command carries 50*(x-cx)/r and
\* -50*(y-cy)/r to the nearest hundredth; with center (200, 200) and radius
\* 180, (200, 20) gives (0, 50), (20, 200) gives (-50, 0) and (500, 500)
\* gives (0, 0).
C10_LinearMap ==
    /\ center_x = 200 /\ center_y = 200 /\ radius = 180
    /\ \A i \in EyeEntries :
        LET x == emitted[i].xy[1]
            y == emitted[i].xy[2]
            ox == OutX(emitted[i])
            oy == OutY(emitted[i])
        IN  /\ InCircle(emitted[i].xy) =>
                /\ 2 * Abs(ox * radius - Full * (x - center_x)) <= radius
                /\ 2 * Abs(oy * radius + Full * (y - center_y)) <= radius
            /\ (x = 200 /\ y = 20) => (ox = 0 /\ oy = Full)
            /\ (x = 20 /\ y = 200) => (ox = - Full /\ oy = 0)
            /\ (x = 500 /\ y = 500) => (ox = 0 /\ oy = 0)

\* the command for the leftmost boundary point was sent
C10_Witness ==
    \E i \in EyeEntries : emitted[i].xy = <<20, 200>>

(* ------------------------------------------------------------------ *)
(* Properties of the handlers                                          *)
(* ------------------------------------------------------------------ *)

\* the commands sent by wheel events, by their place in the log
WheelEntries == {i \in 1..Len(emitted) : emitted[i].by = "wheel"}

\* the integer a LID command carries
LidOf(e) ==
    IF e.cmd.args[1].neg THEN - e.cmd.args[1].int ELSE e.cmd.args[1].int

\* a handler can run and there is room in the log
Ready == pc = "idle" /\ Len(emitted) < MaxEmit

\* the wheel event drawn is one _on_wheel detects
WheelDetected == pointer[1] # 0 \/ pointer[2] \in {4, 5}

progVars == <<ser, is_open, port, serials, written, emitted, dragging,
              last_send_time, status_var, click_dot, pc, connects, ret>>

\* C12: a pointer-down sets Dragging, sends exactly one EYE command for the
\* mapped position, and records the clock reading as the last-emit
\* timestamp the throttle compares with.
C12_PressRecordsTimestamp ==
    Ready =>
        \A xy \in Points :
            ~ ENABLED (/\ _on_left_press(xy[1], xy[2])
                       /\ ~ (/\ dragging'
                             /\ Sent
                             /\ Last(emitted').cmd = EyeCmdAt(xy[1], xy[2])
                             /\ last_send_time' = now))

\* C13: a pointer-move sends an EYE command exactly when the session is
\* Dragging and at least send_interval has passed since the last-emit
\* timestamp; the command is the one for the position of that event, and the
\* timestamp becomes the clock reading.  Otherwise the program's state is
\* left as it was.
C13_MoveSendsIffDue ==
    \A xy \in Points :
        /\ (Ready /\ dragging /\ now - last_send_time >= send_interval) =>
            /\ ENABLED _on_drag(xy[1], xy[2])
            /\ ~ ENABLED (/\ _on_drag(xy[1], xy[2])
                          /\ ~ (/\ Sent
                                /\ Last(emitted').by = "drag"
                                /\ Last(emitted').cmd = EyeCmdAt(xy[1], xy[2])
                                /\ last_send_time' = now))
        /\ (pc = "idle"
              /\ ~ (dragging /\ now - last_send_time >= send_interval)) =>
            /\ ENABLED _on_drag(xy[1], xy[2])
            /\ ~ ENABLED (_on_drag(xy[1], xy[2]) /\ progVars' # progVars)

\* a pointer-move of a drag session arrived less than send_interval after
\* the pointer-move that was sent last, and was dropped
C13_Witness ==
    /\ dragging
    /\ Len(emitted) >= 2
    /\ Last(emitted).by = "drag"
    /\ sess.last = now
    /\ last_send_time < now
    /\ now - last_send_time < send_interval

\* the events other than a pointer-down
NotPress ==
    \/ \E xy \in Points : _on_drag(xy[1], xy[2])
    \/ _on_left_release
    \/ _on_right_click
    \/ \E w \in Wheels : _on_wheel(w[1], w[2])
    \/ Tick

\* C14: a pointer-up sends nothing and sets the session to Idle; while it
\* is Idle no pointer-move sends, whatever the clock reads, and only a
\* pointer-down ends Idle.
C14_ReleaseEndsSession ==
    /\ pc = "idle" =>
        /\ ENABLED _on_left_release
        /\ ~ ENABLED (/\ _on_left_release
                      /\ \/ dragging'
                         \/ emitted' # emitted
                         \/ written' # written)
    /\ ~ dragging =>
        /\ \A xy \in Points :
               ~ ENABLED (_on_drag(xy[1], xy[2]) /\ emitted' # emitted)
        /\ ~ ENABLED (NotPress /\ dragging')

\* a session was ended by a pointer-up, and the clock has since passed the
\* point where a pointer-move of a session would be sent
C14_Witness ==
    /\ ~ dragging
    /\ PressEntries # {}
    /\ now > sess.last
    /\ now - last_send_time >= send_interval
    /\ Len(emitted) < MaxEmit

\* C15: a right-click sends exactly one BLINK command, in a drag session or
\* out of one, and changes none of dragging, the last-emit timestamp and
\* the connection.
C15_RightClickBlinks ==
    /\ Ready =>
        /\ ENABLED _on_right_click
        /\ ~ ENABLED (/\ _on_right_click
                      /\ ~ (/\ Sent
                            /\ Last(emitted').by = "click"
                            /\ Last(emitted').cmd = [op |-> "BLINK",
                                                     args |-> <<>>]))
    /\ ~ ENABLED (/\ _on_right_click
                  /\ \/ dragging' # dragging
                     \/ last_send_time' # last_send_time
                     \/ <<ser, is_open, port, serials>>'
                            # <<ser, is_open, port, serials>>)

\* a right-click in a drag session, with a connection open: the BLINK line
\* was written and the session goes on
C15_Witness ==
    /\ dragging
    /\ SerOpen
    /\ emitted # <<>>
    /\ written # <<>>
    /\ Last(emitted).by = "click"
    /\ Last(written) = [conn |-> ser,
                        data |-> [text |-> [op |-> "BLINK", args |-> <<>>],
                                  end |-> "\n"]]

\* the commands sent while a connection was open
SentOpen == SelectSeq(emitted, LAMBDA e : e.conn # 0)

\* C16: the lines written are the commands sent while a connection was
\* open, one line per command, in order, each on the connection that was
\* open when it was sent; a command sent with no open connection is never
\* written, whatever connection opens later.
C16_NoReplay ==
    /\ [] /\ Len(written) = Len(SentOpen)
          /\ \A i \in 1..Len(written) :
                 written[i] = [conn |-> SentOpen[i].conn,
                               data |-> Line(SentOpen[i].cmd)]
    /\ [][Sent => Last(emitted').conn =
                      (IF ser # 0 /\ ser \in is_open THEN ser ELSE 0)]_vars
    /\ [][~ Sent => written' = written]_vars

\* one command was dropped with no connection, the next went to the first
\* connection and the third to the second
C16_Witness ==
    /\ Len(emitted) = 3
    /\ emitted[1].conn = 0
    /\ emitted[2].conn = 1
    /\ emitted[3].conn = 2
    /\ Len(written) = 2

\* C17: for a delta that is not zero and not a multiple of wheel_unit the
\* LID argument is the floor of delta / wheel_unit (60 gives 0, -60 gives
\* -1); an event with delta 0 and neither button 4 nor button 5 sends
\* nothing.
C17_WheelFloors ==
    /\ \A i \in WheelEntries :
           LET d == emitted[i].xy[1]
               k == LidOf(emitted[i])
           IN  (d # 0 /\ d % wheel_unit # 0) =>
                   /\ emitted[i].cmd.op = "LID"
                   /\ k * wheel_unit < d
                   /\ d < (k + 1) * wheel_unit
                   /\ (d = 60 => k = 0)
                   /\ (d = 0 - 60 => k = 0 - 1)
    /\ (pointer[1] = 0 /\ pointer[2] \notin {4, 5}) =>
           /\ WheelEntries = {}
           /\ pc = "idle" => ENABLED _on_wheel(pointer[1], pointer[2])
           /\ ~ ENABLED (/\ _on_wheel(pointer[1], pointer[2])
                         /\ \/ emitted' # emitted
                            \/ written' # written)

\* a wheel event of delta -60 sent LID -1
C17_Witness ==
    \E i \in WheelEntries :
        /\ emitted[i].xy = <<0 - 60, 0>>
        /\ emitted[i].cmd = [op |-> "LID",
                             args |-> <<[neg |-> TRUE, int |-> 1]>>]

\* C18: the last-emit timestamp is written only by a pointer-move that
\* sends, which sets it to the clock reading; every other step (pointer-down,
\* pointer-up, right-click, wheel, connect) leaves it as it is.  So it
\* outlives the drag session, and a pointer-move of a later session is
\* sent or dropped by its distance from the last pointer-move that was sent,
\* of whichever session.
C18_TimestampOnlyByMove ==
    /\ [][last_send_time' # last_send_time =>
              /\ Sent
              /\ Last(emitted').by = "drag"
              /\ last_send_time' = now]_vars
    /\ [] ((pc = "idle" /\ dragging) =>
              /\ ENABLED _on_drag(344, 308)
                     \/ (Len(emitted) = MaxEmit
                           /\ now - last_send_time >= send_interval)
              /\ now - last_send_time < send_interval =>
                     ~ ENABLED (_on_drag(344, 308) /\ Sent)
              /\ now - last_send_time >= send_interval =>
                     ~ ENABLED (_on_drag(344, 308) /\ ~ Sent))

\* a second drag session has begun less than send_interval after the last
\* pointer-move that the first one sent, with a connect in between
C18_Witness ==
    /\ dragging
    /\ pc = "idle"
    /\ Len(emitted) = 3
    /\ emitted[1].by = "press"
    /\ emitted[2].by = "drag"
    /\ emitted[3].by = "press"
    /\ emitted[3].conn > emitted[2].conn
    /\ last_send_time > 0
    /\ sess.start > last_send_time
    /\ now - last_send_time < send_interval

====
